---- MODULE Spec2Model ----
(***************************************************************************)
(* Hierarchical retrieval and multi-tenant isolation engine of the RAG     *)
(* service: src/api/loading.py (document loading and hierarchy metadata),  *)
(* src/api/api.py (startup, chat and upload handlers) and                  *)
(* src/api/retrieval.py (retriever set).                                   *)
(*                                                                         *)
(* Strings are modelled as sequences of tokens, so that the f-string       *)
(* "{company}|{department}|{employee}" is the concatenation of the three   *)
(* identifiers with the token "|" between them.  Python's None (and a      *)
(* metadata key that is absent, which metadata.get() reads as None) is the *)
(* empty sequence.                                                         *)
(***************************************************************************)
EXTENDS Integers, Sequences, FiniteSets, Bags, TLC

VARIABLES
    knowledge_base,         \* the files under knowledge_base/ (config.py:20)
    vector_db,              \* persisted Chroma collections, one per directory under vector_db/
    retrievers,             \* api.py:26  company -> persist directory of its retriever set
    vectorstore_instances,  \* api.py:42  None or the set of companies holding a store handle
    llm_instance,           \* api.py:27  TRUE when the LLM handle is set
    started,                \* number of times the lifespan startup has run
    uploads,                \* number of upload requests handled
    resp,                   \* what the most recent handler did and returned
    handlers                \* the upload coroutines on the event loop: where each is
                            \* in upload_document, its request and the chunks it still
                            \* has to insert

vars == <<knowledge_base, vector_db, retrievers, vectorstore_instances,
          llm_instance, started, uploads, resp, handlers>>

----------------------------------------------------------------------------
(* Bounds of the model *)

MaxStartups == 2
MaxUploads == 1
MaxHandlers == 2
MaxRetrieved == 4

----------------------------------------------------------------------------
(* Strings *)

None == <<>>
Truthy(x) == x # None
\* str(x) inside an f-string: None is rendered as the text "None"
Fmt(x) == IF x = None THEN <<"None">> ELSE x
Bar == <<"|">>
Underscore == <<"_">>

c1 == <<"c1">>
c2 == <<"c2">>
d1 == <<"d1">>
d2 == <<"d2">>
e1 == <<"e1">>
Dot == <<".">>
PyCache == <<"__pycache__">>
unknown_company == <<"unknown_company">>
unknown_department == <<"unknown_department">>
unknown_employee == <<"unknown_employee">>

Companies == {c1, c2}
\* the departments requests name; d2 is a department that only the knowledge
\* base holds
Departments == {d1}
Employees == {e1}

\* retrieval.py:22  base_search_kwargs = {'k': 3}
k == 3

----------------------------------------------------------------------------
(* Files of the knowledge base.  A file is                                 *)
(*   dir  : the directories from the knowledge-base root to the file       *)
(*   name : the file name;  ext : its lower-cased extension                *)
(*   corrupt : the format loader raises on it                              *)
(*   n    : the number of chunks the text splitter cuts its content into   *)
(*   text : the identity of its content                                    *)

Exts == {"md", "txt", "pdf", "png"}

File(dir, name, ext, corrupt, n, text) ==
    [dir |-> dir, name |-> name, ext |-> ext, corrupt |-> corrupt, n |-> n, text |-> text]

\* os.walk(knowledge_base_path): the root and every directory on the way to a file
RECURSIVE Prefixes(_)
Prefixes(dir) ==
    IF dir = <<>> THEN {<<>>}
    ELSE {dir} \cup Prefixes(SubSeq(dir, 1, Len(dir) - 1))

Walk(kb) == {<<>>} \cup UNION {Prefixes(f.dir) : f \in kb}

\* relative_root = os.path.relpath(root, knowledge_base_path);
\* path_parts = [part for part in relative_root.split(os.sep) if part]
\* relpath of the root itself is ".", a non-empty part
path_parts(dir) == IF dir = <<>> THEN <<Dot>> ELSE dir

----------------------------------------------------------------------------
(* loading.py: load_and_chunk_documents *)

\* loading.py:54-62  the extensions process_company has a loader for
LoaderExts == {"md", "pdf"}

\* variant of DocMetadata: the employee-level key leaves the department out
DocMetadataShortKey(dir) ==
    LET parts == path_parts(dir)
        company == IF Len(parts) > 0 THEN parts[1] ELSE unknown_company
        department == IF Len(parts) > 1 THEN parts[2] ELSE unknown_department
        employee == IF Len(parts) > 2 THEN parts[3] ELSE unknown_employee
    IN  [doc_type |->
            IF employee # unknown_employee
            THEN company \o Underscore \o department \o Underscore \o employee
            ELSE IF department # unknown_department
            THEN company \o Underscore \o department
            ELSE IF company # unknown_company THEN company
            ELSE <<"general">>,
         company |-> company,
         department |-> department,
         employee |-> employee,
         hierarchy_key |->
            IF employee # unknown_employee THEN company \o Bar \o employee
            ELSE IF department # unknown_department
            THEN company \o Bar \o department
            ELSE IF company # unknown_company THEN company
            ELSE None]

\* loading.py:37-49 and 67-76: the metadata process_company sets on every
\* document loaded from directory dir
DocMetadata(dir) ==
    LET parts == path_parts(dir)
        company == IF Len(parts) > 0 THEN parts[1] ELSE unknown_company
        department == IF Len(parts) > 1 THEN parts[2] ELSE unknown_department
        employee == IF Len(parts) > 2 THEN parts[3] ELSE unknown_employee
    IN  [doc_type |->
            IF employee # unknown_employee
            THEN company \o Underscore \o department \o Underscore \o employee
            ELSE IF department # unknown_department
            THEN company \o Underscore \o department
            ELSE IF company # unknown_company THEN company
            ELSE <<"general">>,
         company |-> company,
         department |-> department,
         employee |-> employee,
         hierarchy_key |->
            IF employee # unknown_employee
            THEN company \o Bar \o department \o Bar \o employee
            ELSE IF department # unknown_department
            THEN company \o Bar \o department
            ELSE IF company # unknown_company THEN company
            ELSE None]

\* a chunk: the text fragment, its source file and the hierarchy metadata
Chunk(text, source, m) ==
    [page_content |-> text, source |-> source, doc_type |-> m.doc_type,
     company |-> m.company, department |-> m.department,
     employee |-> m.employee, hierarchy_key |-> m.hierarchy_key]

\* CharacterTextSplitter.split_documents (loading.py:97-98, api.py:481-482):
\* every chunk of a document is a copy of the document's metadata with one
\* fragment of its text
split_documents(f, m) ==
    {Chunk(<<f.text, i>>, <<f.dir, f.name>>, m) : i \in 1..f.n}

\* variant of process_company: a file that cannot be loaded ends the walk, as
\* if the loader's exception were not caught per file
process_company_abort_on_error(kb, company_name) ==
    IF \E f \in kb : f.ext \in LoaderExts /\ f.corrupt
    THEN {}
    ELSE {f \in kb :
            /\ ~(Truthy(company_name) /\ DocMetadata(f.dir).company # company_name)
            /\ f.ext \in LoaderExts}

\* variant of process_company: the company filter is not applied
process_company_unfiltered(kb, company_name) ==
    {f \in kb : f.ext \in LoaderExts /\ ~f.corrupt}

\* loading.py:32-84  the files whose documents process_company returns
process_company(kb, company_name) ==
    {f \in kb :
        /\ ~(Truthy(company_name) /\ DocMetadata(f.dir).company # company_name)
        /\ f.ext \in LoaderExts
        /\ ~f.corrupt}

\* loading.py:107-133  the clean-up of one chunk's metadata after splitting
CleanChunk(c) ==
    LET a == IF c.company = unknown_company
             THEN [c EXCEPT !.company = None, !.department = None, !.employee = None]
             ELSE IF c.department = unknown_department
             THEN [c EXCEPT !.department = None, !.employee = None]
             ELSE IF c.employee = unknown_employee
             THEN [c EXCEPT !.employee = None]
             ELSE c
    IN  IF Truthy(a.company) /\ ~Truthy(a.hierarchy_key)
        THEN [a EXCEPT !.hierarchy_key =
                IF Truthy(a.employee)
                THEN a.company \o Bar \o Fmt(a.department) \o Bar \o a.employee
                ELSE IF Truthy(a.department)
                THEN a.company \o Bar \o a.department
                ELSE a.company]
        ELSE a

\* loading.py:15-155  the chunks load_and_chunk_documents returns
load_and_chunk_documents(kb, company_filter) ==
    UNION {{CleanChunk(c) : c \in split_documents(f, DocMetadata(f.dir))} :
           f \in process_company(kb, company_filter)}

----------------------------------------------------------------------------
(* The persisted stores and the registry *)

EmptyMap == [x \in {} |-> x]

\* variant of company_db_path: one store directory for every company, as the
\* single db_name store of main.py
shared_db_path(company) == <<"vector_db">>

\* api.py:71 and api.py:517  os.path.join("vector_db", company)
company_db_path(company) == company

\* Chroma(persist_directory=path): opens the collection persisted under path,
\* creating it empty when the directory holds none (api.py:73-75, 521-523)
Collection(db, path) == IF path \in DOMAIN db THEN db[path] ELSE EmptyBag

\* variant of add_documents: the collection is cleared before the chunks are
\* inserted, as initialize_vectorstore does (loading.py:176-183)
rebuild_collection(db, path, chunks) ==
    [p \in DOMAIN db \cup {path} |->
        IF p = path THEN SetToBag(chunks) ELSE db[p]]

\* vectorstore.add_documents(documents=chunks) on the collection under path
\* (api.py:75-77 and api.py:523-524): the chunks are appended to what the
\* collection already holds
add_documents(db, path, chunks) ==
    [p \in DOMAIN db \cup {path} |->
        IF p = path THEN Collection(db, p) (+) SetToBag(chunks)
        ELSE db[p]]

\* variant of Contaminated: the startup inserts whatever was loaded
no_contamination_check(company, document_chunks) == FALSE

\* api.py:66-68  the cross-company contamination check of the startup
Contaminated(company, document_chunks) ==
    LET companies_in_chunks == {c.company : c \in document_chunks}
    IN  \/ Cardinality(companies_in_chunks) > 1
        \/ (Cardinality(companies_in_chunks) = 1 /\ company \notin companies_in_chunks)

\* api.py:49-54  the companies the startup finds under the knowledge base
CompaniesFound(kb) == {path_parts(dir)[1] : dir \in Walk(kb)}

\* api.py:59  the entries of the walk the startup loop skips
SkippedCompany(company) == ~Truthy(company) \/ company = Dot \/ company = PyCache

\* api.py:58-80  the startup loop over the companies in iteration order
\* `order`: the stores and the registry it leaves
RECURSIVE StartupLoop(_, _, _, _)
StartupLoop(order, kb, db, regs) ==
    IF order = <<>> THEN [db |-> db, retrievers |-> regs]
    ELSE LET company == Head(order)
             document_chunks == load_and_chunk_documents(kb, company)
             path == company_db_path(company)
         IN  IF SkippedCompany(company) \/ Contaminated(company, document_chunks)
             THEN StartupLoop(Tail(order), kb, db, regs)
             ELSE StartupLoop(Tail(order), kb,
                              add_documents(db, path, document_chunks),
                              (company :> path) @@ regs)

\* the orders in which a Python set of companies can be iterated
Orders(S) ==
    {o \in [1..Cardinality(S) -> S] : \A i, j \in 1..Cardinality(S) : o[i] = o[j] => i = j}

----------------------------------------------------------------------------
(* The knowledge bases the service is started on *)

RootFile == File(<<>>, "readme.md", "md", FALSE, 1, "t0")
C1File == File(<<c1>>, "policy.md", "md", FALSE, 2, "t1")
C1File2 == File(<<c1>>, "handbook.pdf", "pdf", FALSE, 1, "t2")
C1D1File == File(<<c1, d1>>, "guide.md", "md", FALSE, 1, "t1")
C1D1E1File == File(<<c1, d1, e1>>, "manual.md", "md", FALSE, 1, "t1")
C1DeepFile == File(<<c1, d2, e1, <<"notes">>>>, "note.md", "md", FALSE, 1, "t2")
C2File == File(<<c2>>, "policy.md", "md", FALSE, 1, "t1")
C2Corrupt == File(<<c2>>, "scan.pdf", "pdf", TRUE, 1, "t2")
C2Image == File(<<c2, d1>>, "logo.png", "png", FALSE, 0, "t2")

InitialKnowledgeBases ==
    { {},
      {RootFile, C1File, C1D1File, C1D1E1File, C2File},
      {C1File, C1File2, C1DeepFile, C2Corrupt, C2Image} }

NoResponse == [op |-> "none"]

\* the upload coroutines of the event loop
HandlerIds == 1..MaxHandlers

\* an upload coroutine no request has been given to
Idle == [pc |-> "idle", request |-> <<>>, chunks |-> {}, pending |-> {}]

\* the places of upload_document between the start of the store write
\* (api.py:523-524) and the replacement of the registry entry (api.py:525-526)
WritePcs == {"insert", "register"}

\* variant of Awaits: the store write awaits, as with `await
\* vectorstore.aadd_documents(...)`, and gives the event loop to other requests
AwaitsAtStoreWrite(pc) == pc \in {"insert", "register"}

\* api.py:344-543  whether the coroutine suspends at place pc: the body of
\* upload_document holds no await expression, so once the event loop has
\* started it, it runs to its return
Awaits(pc) == FALSE

\* the coroutines that hold the event loop
Running ==
    {h \in HandlerIds : handlers[h].pc \in WritePcs /\ ~Awaits(handlers[h].pc)}

Init ==
    /\ knowledge_base \in InitialKnowledgeBases
    /\ vector_db = EmptyMap
    /\ retrievers = EmptyMap
    /\ vectorstore_instances = [none |-> TRUE, companies |-> {}]
    /\ llm_instance = FALSE
    /\ started = 0
    /\ uploads = 0
    /\ resp = NoResponse
    /\ handlers = [h \in HandlerIds |-> Idle]

----------------------------------------------------------------------------
(* api.py:34-90  lifespan: the startup of the service.  failAt = 0: nothing  *)
(* raises; failAt = i <= Len(order): an exception is raised while the i-th   *)
(* company is processed, before its chunks are inserted; failAt =            *)
(* Len(order) + 1: setup_llm raises after the loop.                          *)

\* api.py:83  the place of an exception raised after the loop
setup_llm == <<"setup_llm">>

Lifespan(order, failAt) ==
    /\ started < MaxStartups
    /\ resp = NoResponse
    /\ \A h \in HandlerIds : handlers[h].pc \in {"idle", "done"}
    /\ LET done == IF failAt = 0 THEN order ELSE SubSeq(order, 1, failAt - 1)
           r == StartupLoop(done, knowledge_base, vector_db, EmptyMap)
       IN  /\ vector_db' = r.db
           /\ IF failAt = 0
              THEN /\ retrievers' = r.retrievers
                   /\ vectorstore_instances' =
                         [none |-> FALSE, companies |-> DOMAIN r.retrievers]
                   /\ llm_instance' = TRUE
              ELSE /\ retrievers' = EmptyMap
                   /\ vectorstore_instances' = [none |-> TRUE, companies |-> {}]
                   /\ llm_instance' = FALSE
           /\ resp' = [op |-> "startup",
                       failed |-> failAt # 0,
                       raised_in |-> IF failAt = 0 THEN None
                                     ELSE IF failAt <= Len(order) THEN order[failAt]
                                     ELSE setup_llm,
                       initialized |-> DOMAIN r.retrievers]
    /\ started' = started + 1
    /\ UNCHANGED <<knowledge_base, uploads, handlers>>

\* a startup in which nothing raises
Startup ==
    \E order \in Orders(CompaniesFound(knowledge_base)) : Lifespan(order, 0)

\* a startup in which the store, the embeddings or the LLM set-up raises
StartupFails ==
    \E order \in Orders(CompaniesFound(knowledge_base)) :
        \E failAt \in 1..(Len(order) + 1) :
            \* a company the loop skips (api.py:59-60) raises nothing
            /\ failAt <= Len(order) => ~SkippedCompany(order[failAt])
            /\ Lifespan(order, failAt)

----------------------------------------------------------------------------
(* api.py:135-340  chat_endpoint *)

employee_level == "employee_level"
department_level == "department_level"
company_level == "company_level"
general == "general"
Levels == {employee_level, department_level, company_level, general}

\* variant of retriever_keys_to_query: only the most specific level is queried
most_specific_level_only(company, department, employee) ==
    (IF Truthy(company) /\ Truthy(department) /\ Truthy(employee)
     THEN <<"employee_level">>
     ELSE IF Truthy(company) /\ Truthy(department) THEN <<"department_level">>
     ELSE IF Truthy(company) THEN <<"company_level">>
     ELSE <<>>)
    \o <<"general">>

\* api.py:169-180  the levels a request queries, most specific first
retriever_keys_to_query(company, department, employee) ==
    (IF Truthy(company) /\ Truthy(department) /\ Truthy(employee)
     THEN <<employee_level>> ELSE <<>>)
    \o (IF Truthy(company) /\ Truthy(department) THEN <<department_level>> ELSE <<>>)
    \o (IF Truthy(company) THEN <<company_level>> ELSE <<>>)
    \o <<general>>

NoFilter == [field |-> "none", value |-> None]

\* api.py:189-215  the metadata filter of one level
filter_dict(key, company, department, employee) ==
    IF key = employee_level
    THEN [field |-> "hierarchy_key",
          value |-> Fmt(company) \o Bar \o Fmt(department) \o Bar \o Fmt(employee)]
    ELSE IF key = department_level
    THEN [field |-> "hierarchy_key", value |-> Fmt(company) \o Bar \o Fmt(department)]
    ELSE IF key = company_level
    THEN [field |-> "hierarchy_key", value |-> Fmt(company)]
    ELSE IF Truthy(company) THEN [field |-> "company", value |-> company]
    ELSE NoFilter

\* api.py:191-206  the levels the loop skips for want of their identifiers
LevelSkipped(key, company, department, employee) ==
    \/ key = employee_level /\ ~(Truthy(company) /\ Truthy(department) /\ Truthy(employee))
    \/ key = department_level /\ ~(Truthy(company) /\ Truthy(department))
    \/ key = company_level /\ ~Truthy(company)

\* the exact-match metadata filter of the nearest-neighbour store: a chunk
\* matches when it carries the field with exactly that value
Matches(c, f) ==
    IF f.field = "hierarchy_key" THEN Truthy(c.hierarchy_key) /\ c.hierarchy_key = f.value
    ELSE IF f.field = "company" THEN Truthy(c.company) /\ c.company = f.value
    ELSE TRUE

Restrict(B, f) == [c \in {x \in DOMAIN B : Matches(x, f)} |-> B[c]]

BagSize(B) == BagCardinality(B)

Min(a, b) == IF a < b THEN a ELSE b

\* the entries of bag B as a list, in a fixed enumeration order
RECURSIVE Listed(_)
Listed(B) ==
    IF DOMAIN B = {} THEN <<>>
    ELSE LET x == CHOOSE y \in DOMAIN B : TRUE
         IN  <<x>> \o Listed(B (-) SetToBag({x}))

Reverse(seq) == [i \in 1..Len(seq) |-> seq[Len(seq) + 1 - i]]

\* the questions of the chat requests.  The nearest-neighbour search ranks
\* the entries of a collection by their distance to the question: the two
\* questions rank every collection in opposite orders
Questions == {"q1", "q2"}

Ranked(B, question) == IF question = "q1" THEN Listed(B) ELSE Reverse(Listed(B))

\* variant of get_relevant_documents: the search runs over every persisted
\* collection and drops the filter
search_every_collection(db, path, question, f) ==
    LET everything == Listed(SetToBag(UNION {DOMAIN db[p] : p \in DOMAIN db}))
        ranked == IF question = "q1" THEN everything ELSE Reverse(everything)
    IN  SubSeq(ranked, 1, Min(k, Len(ranked)))

\* retriever.get_relevant_documents(question, filter=f) on the retriever set
\* of the collection under path (api.py:216-220, retrieval.py:22-31): the
\* k matching entries nearest to the question (all of them when fewer match)
get_relevant_documents(db, path, question, f) ==
    LET ranked == Ranked(Restrict(Collection(db, path), f), question)
    IN  SubSeq(ranked, 1, Min(k, Len(ranked)))

\* api.py:161  company_retrievers = retrievers[company]
company_retrievers(regs, company) == regs[company]

\* variant of LevelResults: the first lookup that raises ends the retrieval,
\* as if the try enclosed the loop
LevelResultsUncontained(db, regs, key, question, company, department, employee, failing) ==
    IF failing # {} \/ LevelSkipped(key, company, department, employee)
    THEN <<>>
    ELSE get_relevant_documents(db, company_retrievers(regs, company), question,
                                filter_dict(key, company, department, employee))

\* api.py:184-232  the documents one level of the loop retrieves
LevelResults(db, regs, key, question, company, department, employee, failing) ==
    IF key \in failing \/ LevelSkipped(key, company, department, employee)
    THEN <<>>
    ELSE get_relevant_documents(db, company_retrievers(regs, company), question,
                                filter_dict(key, company, department, employee))

\* api.py:241-242  the key two retrieved documents are compared by
\* (no chunk carries a page: loading.py:103 and api.py:472 delete it)
doc_key(doc) ==
    <<doc.page_content, doc.source, None, doc.company, doc.department, doc.employee>>

\* api.py:236-248  first occurrence of every key, in order
RECURSIVE UniqueDocs(_, _)
UniqueDocs(docs, seen) ==
    IF docs = <<>> THEN <<>>
    ELSE IF doc_key(Head(docs)) \in seen THEN UniqueDocs(Tail(docs), seen)
    ELSE <<Head(docs)>> \o UniqueDocs(Tail(docs), seen \cup {doc_key(Head(docs))})

RECURSIVE DropRepeats(_, _)
DropRepeats(docs, last) ==
    IF docs = <<>> THEN <<>>
    ELSE IF <<doc_key(Head(docs))>> = last THEN DropRepeats(Tail(docs), last)
    ELSE <<Head(docs)>> \o DropRepeats(Tail(docs), <<doc_key(Head(docs))>>)

\* variant of final_retrieved_docs: a document is dropped only when its key
\* is the key of the document just before it
consecutive_duplicates_removed(retrieved_docs) == DropRepeats(retrieved_docs, <<>>)

\* api.py:236-248  unique_docs = {}; ...; list(unique_docs.values())
final_retrieved_docs(retrieved_docs) == UniqueDocs(retrieved_docs, {})

Section(label, docs) == [label |-> label, docs |-> docs]

\* variant of context_sections: the general section is emitted first
context_sections_general_first(level_docs) ==
    (IF level_docs[general] # <<>>
     THEN <<Section("GENERAL COMPANY INFORMATION", level_docs[general])>>
     ELSE <<>>)
    \o (IF level_docs[employee_level] # <<>>
        THEN <<Section("EMPLOYEE-SPECIFIC INFORMATION", level_docs[employee_level])>>
        ELSE <<>>)
    \o (IF level_docs[department_level] # <<>>
        THEN <<Section("DEPARTMENT-LEVEL INFORMATION", level_docs[department_level])>>
        ELSE <<>>)
    \o (IF level_docs[company_level] # <<>>
        THEN <<Section("COMPANY-LEVEL INFORMATION", level_docs[company_level])>>
        ELSE <<>>)

\* api.py:257-288  the sections of the context, from the documents kept per level
context_sections(level_docs) ==
    (IF level_docs[employee_level] # <<>>
     THEN <<Section("EMPLOYEE-SPECIFIC INFORMATION", level_docs[employee_level])>>
     ELSE <<>>)
    \o (IF level_docs[department_level] # <<>>
        THEN <<Section("DEPARTMENT-LEVEL INFORMATION", level_docs[department_level])>>
        ELSE <<>>)
    \o (IF level_docs[company_level] # <<>>
        THEN <<Section("COMPANY-LEVEL INFORMATION", level_docs[company_level])>>
        ELSE <<>>)
    \o (IF level_docs[general] # <<>>
        THEN <<Section("GENERAL COMPANY INFORMATION", level_docs[general])>>
        ELSE <<>>)

RECURSIVE Concat(_, _)
\* api.py:225-227  retrieved_docs.extend(docs) for the levels in query order
Concat(keys, level_docs) ==
    IF keys = <<>> THEN <<>>
    ELSE level_docs[Head(keys)] \o Concat(Tail(keys), level_docs)

\* api.py:334-340  except Exception: every exception raised inside the try
\* block, the HTTPException raised for an unknown company included, is
\* answered with the generic internal error
chat_except(raised) == 500

\* the texts with which an upstream service (the nearest-neighbour store, the
\* embeddings or the completion service) raises
UpstreamErrors == {<<"connection refused">>, <<"quota exceeded">>}

\* api.py:145  the detail of the 503 answer
not_ready_detail ==
    <<"The service is not ready to handle requests. Initialization failed.">>

\* api.py:160  the detail of the HTTPException raised for an unknown company
not_found_detail(company) == <<"No vectorstore found for company ">> \o Fmt(company)

\* api.py:335-340  the detail of the 500 answer: the exception e is printed
\* and the answer carries a fixed text
chat_except_detail(e) ==
    <<"An internal error occurred while processing your request.">>

ChatResponse(status, company, department, employee, keys, level_docs, answer) ==
    [op |-> "chat", status |-> status,
     company |-> company, department |-> department, employee |-> employee,
     keys |-> keys, level_docs |-> level_docs,
     retrieved_docs |-> Concat(keys, level_docs),
     final_retrieved_docs |-> final_retrieved_docs(Concat(keys, level_docs)),
     context_sections |-> IF answer = "generated" \/ answer = "llm_error"
                          THEN context_sections(level_docs) ELSE <<>>,
     answer |-> answer,
     detail |-> IF answer = "not_ready" THEN not_ready_detail ELSE None]

NoDocs == [key \in Levels |-> <<>>]

\* the set of the elements of a list
Range(seq) == {seq[i] : i \in 1..Len(seq)}

\* the chat histories a request carries (api.py:122): none, or one earlier
\* exchange
Histories == {<<>>, << <<"q0", "a0">> >>}

\* the (question, chat_history) pairs of the requests: a first question, and
\* a question that follows an earlier exchange
ChatInputs == {<<"q1", <<>>>>, <<"q2", << <<"q0", "a0">> >>>>}

\* variant of append_history: the pair is appended to the request's own list
append_history_in_place(chat_history, question, answer) ==
    [request |-> chat_history \o << <<question, answer>> >>,
     returned |-> chat_history \o << <<question, answer>> >>]

\* api.py:253 and api.py:330  chat_history + [(question, answer)]: a new list
\* is returned and the list of the request stays as it was
append_history(chat_history, question, answer) ==
    [request |-> chat_history,
     returned |-> chat_history \o << <<question, answer>> >>]

\* the response with the request's question and the histories: a response
\* that is an HTTPException carries no history
Reply(question, chat_history, r) ==
    LET h == append_history(chat_history, question, r.answer)
    IN  [question |-> question,
         request_chat_history |-> IF r.status = 200 THEN h.request ELSE chat_history,
         chat_history |-> IF r.status = 200 THEN h.returned ELSE <<>>] @@ r

\* variant of NoInformation: the request goes on to the LLM with an empty context
NoInformationNever(docs) == FALSE

\* api.py:252  if not final_retrieved_docs
NoInformation(docs) == docs = <<>>

\* failing: the levels whose lookup raises (api.py:229-230);
\* llm_fails: llm_instance.invoke raises (api.py:325)
ChatRequest(question, chat_history, company, department, employee, failing, llm_fails) ==
    /\ started > 0
    /\ resp = NoResponse
    /\ Running = {}
    /\ IF retrievers = EmptyMap \/ ~llm_instance
       THEN \* api.py:142-146
            resp' = Reply(question, chat_history,
                          ChatResponse(503, company, department, employee,
                                       <<>>, NoDocs, "not_ready"))
       ELSE IF company \notin DOMAIN retrievers
       THEN \* api.py:158-160 raises 404 inside the try block
            resp' = Reply(question, chat_history,
                          [ChatResponse(chat_except(404), company, department,
                                        employee, <<>>, NoDocs, "error")
                              EXCEPT !.detail =
                                  chat_except_detail(not_found_detail(company))])
       ELSE LET keys == retriever_keys_to_query(company, department, employee)
                level_docs ==
                    [key \in Levels |->
                        IF key \in Range(keys)
                        THEN LevelResults(vector_db, retrievers, key, question, company,
                                          department, employee, failing)
                        ELSE <<>>]
            IN  IF NoInformation(final_retrieved_docs(Concat(keys, level_docs)))
                THEN \* api.py:252-253
                     resp' = Reply(question, chat_history,
                                   ChatResponse(200, company, department, employee,
                                                keys, level_docs, "no_information"))
                ELSE IF llm_fails
                THEN \* api.py:325 raises, api.py:334-340 answers
                     \E e \in UpstreamErrors :
                         resp' = Reply(question, chat_history,
                                       [ChatResponse(chat_except(500), company,
                                                     department, employee, keys,
                                                     level_docs, "llm_error")
                                           EXCEPT !.detail = chat_except_detail(e)])
                ELSE \* api.py:327-332
                     resp' = Reply(question, chat_history,
                                   ChatResponse(200, company, department, employee,
                                                keys, level_docs, "generated"))
    /\ UNCHANGED <<knowledge_base, vector_db, retrievers, vectorstore_instances,
                   llm_instance, started, uploads, handlers>>

c3 == <<"c3">>

\* a chat request during which no upstream service raises
Chat ==
    \E input \in ChatInputs,
       company \in Companies \cup {c3}, department \in Departments \cup {None},
       employee \in Employees \cup {None} :
        ChatRequest(input[1], input[2], company, department, employee, {}, FALSE)

\* a chat request during which the store raises on some levels or the LLM raises
ChatUpstreamFails ==
    \E input \in ChatInputs,
       company \in Companies, department \in Departments \cup {None},
       employee \in Employees \cup {None}, failing \in SUBSET Levels,
       llm_fails \in BOOLEAN :
        /\ failing # {} \/ llm_fails
        /\ ChatRequest(input[1], input[2], company, department, employee,
                       failing, llm_fails)

\* the handler returns: its response is sent and the service takes the
\* next request (api.py:90, api.py:332, api.py:531)
Respond ==
    /\ resp # NoResponse
    /\ resp' = NoResponse
    /\ UNCHANGED <<knowledge_base, vector_db, retrievers, vectorstore_instances,
                   llm_instance, started, uploads, handlers>>

----------------------------------------------------------------------------
(* api.py:344-543  upload_document *)

UploadLevels == {"company", "department", "employee"}

\* variant of UploadRejected: without the last check (api.py:393-395), an
\* employee given without a department is let through
UploadRejectedOrphanEmployee(company, department, employee, level) ==
    \/ level \notin UploadLevels
    \/ level = "department" /\ ~Truthy(company)
    \/ level = "employee" /\ (~Truthy(company) \/ ~Truthy(department))
    \/ IF Truthy(department) /\ level \in {"department", "employee"}
       THEN ~(Truthy(employee) /\ level = "employee")
            /\ Truthy(employee) /\ level = "department"
       ELSE Truthy(department) /\ level = "company"

\* variant of UploadRejected: without the first check (api.py:359-360), a
\* level that is none of the three is let through
UploadRejectedLevelUnchecked(company, department, employee, level) ==
    \/ level = "department" /\ ~Truthy(company)
    \/ level = "employee" /\ (~Truthy(company) \/ ~Truthy(department))
    \/ IF Truthy(department) /\ level \in {"department", "employee"}
       THEN ~(Truthy(employee) /\ level = "employee")
            /\ Truthy(employee) /\ level = "department"
       ELSE Truthy(department) /\ level = "company"
    \/ Truthy(employee) /\ ~Truthy(department)

\* api.py:358-395  the requests the validation refuses with status 400
UploadRejected(company, department, employee, level) ==
    \/ level \notin UploadLevels
    \/ level = "department" /\ ~Truthy(company)
    \/ level = "employee" /\ (~Truthy(company) \/ ~Truthy(department))
    \/ IF Truthy(department) /\ level \in {"department", "employee"}
       THEN ~(Truthy(employee) /\ level = "employee")
            /\ Truthy(employee) /\ level = "department"
       ELSE Truthy(department) /\ level = "company"
    \/ Truthy(employee) /\ ~Truthy(department)

\* api.py:371-378  the directory, below the knowledge base, the file is saved in
upload_dir_parts(company, department, employee, level) ==
    <<company>>
    \o (IF Truthy(department) /\ level \in {"department", "employee"}
        THEN <<department>>
             \o (IF Truthy(employee) /\ level = "employee" THEN <<employee>> ELSE <<>>)
        ELSE <<>>)

\* api.py:416-423  the extensions the upload has a loader for
UploadLoaderExts == {"md", "txt", "pdf"}

\* api.py:463-468 and 488-493  the hierarchy_key of an uploaded chunk
upload_hierarchy_key(company, department, employee, level) ==
    IF level = "employee"
    THEN Fmt(company) \o Bar \o Fmt(department) \o Bar \o Fmt(employee)
    ELSE IF level = "department" THEN Fmt(company) \o Bar \o Fmt(department)
    ELSE IF level = "company" THEN Fmt(company)
    ELSE None

\* api.py:437-444  the doc_type of an uploaded chunk
upload_doc_type(company, department, employee, level) ==
    IF level = "employee"
    THEN Fmt(company) \o Underscore \o Fmt(department) \o Underscore \o Fmt(employee)
    ELSE IF level = "department" THEN Fmt(company) \o Underscore \o Fmt(department)
    ELSE IF level = "company" THEN company
    ELSE <<"general">>

\* api.py:446-477 and 486-500  the metadata of the chunks of an upload: the
\* company always, department and employee when they are not None
UploadMetadata(company, department, employee, level) ==
    [doc_type |-> upload_doc_type(company, department, employee, level),
     company |-> company,
     department |-> department,
     employee |-> employee,
     hierarchy_key |-> upload_hierarchy_key(company, department, employee, level)]

\* api.py:405-410  the file is written at file_location, replacing a file of
\* the same name there
SaveFile(kb, f) == {g \in kb : ~(g.dir = f.dir /\ g.name = f.name)} \cup {f}

\* api.py:429-504  the chunks the upload hands to the store
new_chunks(f, company, department, employee, level) ==
    split_documents(f, UploadMetadata(company, department, employee, level))

\* api.py:536-538  the info text of an upload whose vectorization raised
\* e: the text of the exception is formatted into it
vectorization_error_info(e) == <<"Error during vectorization: ">> \o e

\* variant of UploadOutcome: the PdfReadError of a corrupt PDF is not caught
\* before the store code
UploadOutcomeCorruptIgnored(f, chunks) ==
    IF f.ext \notin UploadLoaderExts THEN "unsupported"
    ELSE IF chunks = {} THEN "no_chunks"
    ELSE "vectorize"

\* api.py:425-433, 502-504 and 533-535  the places where upload_document
\* returns after saving the file without reaching the store code, or
\* "vectorize" when it goes on to api.py:507
UploadOutcome(f, chunks) ==
    IF f.ext \notin UploadLoaderExts THEN "unsupported"
    ELSE IF f.corrupt THEN "corrupted"
    ELSE IF chunks = {} THEN "no_chunks"
    ELSE "vectorize"

UploadResponse(status, company, department, employee, level, f, chunks, info) ==
    [op |-> "upload", status |-> status,
     company |-> company, department |-> department, employee |-> employee,
     level |-> level, file |-> f, new_chunks |-> chunks, info |-> info,
     detail |-> <<info>>]

NoFile == File(<<>>, "", "", FALSE, 0, "")

\* the files a client uploads: (name, extension, corrupt, chunks, content)
UploadedFiles ==
    {<<"policy.md", "md", FALSE, 2, "t3">>,
     <<"notes.txt", "txt", FALSE, 1, "t3">>,
     <<"empty.md", "md", FALSE, 0, "t3">>,
     <<"scan.pdf", "pdf", TRUE, 1, "t3">>,
     <<"logo.png", "png", FALSE, 0, "t3">>}

\* store_fails: the store or the embeddings raise on insertion (api.py:536-538)
UploadDocument(company, department, employee, level, store_fails) ==
    /\ started > 0
    /\ uploads < MaxUploads
    /\ resp = NoResponse
    /\ Running = {}
    /\ uploads' = uploads + 1
    /\ UNCHANGED <<llm_instance, started, handlers>>
    /\ IF UploadRejected(company, department, employee, level)
       THEN /\ resp' = UploadResponse(400, company, department, employee, level,
                                      NoFile, {}, "rejected")
            /\ UNCHANGED <<knowledge_base, vector_db, retrievers, vectorstore_instances>>
       ELSE \E u \in UploadedFiles :
            LET f == File(upload_dir_parts(company, department, employee, level),
                          u[1], u[2], u[3], u[4], u[5])
                chunks == new_chunks(f, company, department, employee, level)
                path == company_db_path(company)
                Saved(info) ==
                    /\ resp' = UploadResponse(200, company, department, employee,
                                              level, f, {}, info)
                    /\ UNCHANGED <<vector_db, retrievers, vectorstore_instances>>
            IN  /\ knowledge_base' = SaveFile(knowledge_base, f)
                /\ IF UploadOutcome(f, chunks) # "vectorize"
                   THEN Saved(UploadOutcome(f, chunks))
                   ELSE IF store_fails
                        THEN /\ \E e \in UpstreamErrors :
                                   resp' = [UploadResponse(200, company, department,
                                               employee, level, f, {},
                                               "vectorization_error")
                                              EXCEPT !.detail = vectorization_error_info(e)]
                             /\ vectorstore_instances' =
                                   [none |-> FALSE,
                                    companies |-> vectorstore_instances.companies]
                             /\ UNCHANGED <<vector_db, retrievers>>
                        ELSE /\ vector_db' = add_documents(vector_db, path, chunks)
                             /\ vectorstore_instances' =
                                   [none |-> FALSE,
                                    companies |-> vectorstore_instances.companies
                                                  \cup {company}]
                             /\ retrievers' = (company :> path) @@ retrievers
                             /\ resp' = UploadResponse(200, company, department,
                                            employee, level, f, chunks, "added")

\* an upload during which no upstream service raises
Upload ==
    \E company \in Companies, department \in Departments \cup {None},
       employee \in Employees \cup {None}, level \in UploadLevels \cup {"team"} :
        UploadDocument(company, department, employee, level, FALSE)

\* an upload whose insertion into the store raises
UploadStoreFails ==
    \E company \in Companies, department \in Departments \cup {None},
       employee \in Employees \cup {None}, level \in UploadLevels :
        /\ ~UploadRejected(company, department, employee, level)
        /\ UploadDocument(company, department, employee, level, TRUE)

----------------------------------------------------------------------------
(* api.py:344-543  upload_document as the event loop runs it: requests that  *)
(* arrive while a handler runs wait for the loop; a handler is taken through *)
(* its store write one call at a time.                                       *)

\* the upload requests that arrive concurrently
UploadRequests ==
    {<<c1, None, None, "company", <<"policy.md", "md", FALSE, 2, "t3">>>>,
     <<c1, d1, None, "department", <<"notes.txt", "txt", FALSE, 1, "t3">>>>,
     <<c2, None, None, "company", <<"policy.md", "md", FALSE, 2, "t3">>>>,
     <<c1, None, None, "company", <<"logo.png", "png", FALSE, 0, "t3">>>>,
     <<c1, None, None, "team", <<"policy.md", "md", FALSE, 2, "t3">>>>}

\* api.py:344-351  a request is received and its coroutine is scheduled
UploadArrive(h, request) ==
    /\ started > 0
    /\ handlers[h].pc = "idle"
    \* the coroutines are numbered in the order their requests arrive
    /\ \A g \in HandlerIds : g < h => handlers[g].pc # "idle"
    /\ handlers' = [handlers EXCEPT ![h] = [Idle EXCEPT !.pc = "queued",
                                                        !.request = request]]
    /\ UNCHANGED <<knowledge_base, vector_db, retrievers, vectorstore_instances,
                   llm_instance, started, uploads, resp>>

\* api.py:358-504  the event loop starts the coroutine: validation, the file
\* is saved, loaded, given its metadata and chunked; the handler returns
\* here when there is nothing to insert
UploadStart(h) ==
    /\ handlers[h].pc = "queued"
    /\ Running = {}
    /\ resp = NoResponse
    /\ uploads' = uploads + 1
    /\ UNCHANGED <<vector_db, retrievers, vectorstore_instances, llm_instance, started>>
    /\ LET company == handlers[h].request[1]
           department == handlers[h].request[2]
           employee == handlers[h].request[3]
           level == handlers[h].request[4]
           u == handlers[h].request[5]
           f == File(upload_dir_parts(company, department, employee, level),
                     u[1], u[2], u[3], u[4], u[5])
           chunks == new_chunks(f, company, department, employee, level)
           Returns(status, file, info) ==
               /\ resp' = UploadResponse(status, company, department, employee,
                                         level, file, {}, info)
               /\ handlers' = [handlers EXCEPT ![h].pc = "done"]
       IN  IF UploadRejected(company, department, employee, level)
           THEN Returns(400, NoFile, "rejected") /\ UNCHANGED knowledge_base
           ELSE /\ knowledge_base' = SaveFile(knowledge_base, f)
                /\ IF UploadOutcome(f, chunks) # "vectorize"
                   THEN Returns(200, f, UploadOutcome(f, chunks))
                   ELSE /\ handlers' = [handlers EXCEPT ![h].pc = "insert",
                                                        ![h].chunks = chunks,
                                                        ![h].pending = chunks]
                        /\ UNCHANGED resp

\* api.py:523-524  vectorstore.add_documents(documents=new_chunks): the
\* chunks enter the company's collection one after the other
UploadInsert(h) ==
    /\ handlers[h].pc = "insert"
    /\ Running \subseteq {h}
    /\ \E c \in handlers[h].pending :
          /\ vector_db' = add_documents(vector_db,
                                        company_db_path(handlers[h].request[1]), {c})
          /\ handlers' = [handlers EXCEPT
                             ![h].pending = @ \ {c},
                             ![h].pc = IF handlers[h].pending = {c}
                                       THEN "register" ELSE "insert"]
    /\ UNCHANGED <<knowledge_base, retrievers, vectorstore_instances, llm_instance,
                   started, uploads, resp>>

\* api.py:525-531  the registry entries of the company are replaced and the
\* handler returns
UploadRegister(h) ==
    /\ handlers[h].pc = "register"
    /\ Running \subseteq {h}
    /\ resp = NoResponse
    /\ LET company == handlers[h].request[1]
           u == handlers[h].request[5]
           f == File(upload_dir_parts(company, handlers[h].request[2],
                                      handlers[h].request[3], handlers[h].request[4]),
                     u[1], u[2], u[3], u[4], u[5])
       IN  /\ vectorstore_instances' =
                 [none |-> FALSE,
                  companies |-> vectorstore_instances.companies \cup {company}]
           /\ retrievers' = (company :> company_db_path(company)) @@ retrievers
           /\ resp' = UploadResponse(200, company, handlers[h].request[2],
                                     handlers[h].request[3], handlers[h].request[4],
                                     f, handlers[h].chunks, "added")
    /\ handlers' = [handlers EXCEPT ![h].pc = "done"]
    /\ UNCHANGED <<knowledge_base, vector_db, llm_instance, started, uploads>>

UploadArrives == \E h \in HandlerIds, request \in UploadRequests : UploadArrive(h, request)

UploadStarts == \E h \in HandlerIds : UploadStart(h)

UploadInserts == \E h \in HandlerIds : UploadInsert(h)

UploadRegisters == \E h \in HandlerIds : UploadRegister(h)

Next == Startup \/ Chat \/ Upload \/ Respond

Spec == Init /\ [][Next]_vars

\* the same service with upstream services that may raise
NextFaulty == Next \/ StartupFails \/ ChatUpstreamFails \/ UploadStoreFails

SpecFaulty == Init /\ [][NextFaulty]_vars

\* the service with upload requests that arrive concurrently
\* a chat request for a company, handled between the upload handlers
ChatBetweenUploads ==
    \E company \in Companies : ChatRequest("q1", <<>>, company, None, None, {}, FALSE)

NextConcurrent ==
    \/ Startup \/ ChatBetweenUploads \/ Respond
    \/ UploadArrives \/ UploadStarts \/ UploadInserts \/ UploadRegisters

SpecConcurrent == Init /\ [][NextConcurrent]_vars

\* a knowledge base with a directory named as the loader's sentinel for a
\* missing company (loading.py:37): the clean-up (loading.py:107-110) removes
\* the company of its chunks, so the chunks loaded for it do not name it
SentinelFile == File(<<unknown_company>>, "orphan.md", "md", FALSE, 1, "t2")

InitSentinel ==
    /\ knowledge_base = {C1File, C2File, SentinelFile}
    /\ vector_db = EmptyMap
    /\ retrievers = EmptyMap
    /\ vectorstore_instances = [none |-> TRUE, companies |-> {}]
    /\ llm_instance = FALSE
    /\ started = 0
    /\ uploads = 0
    /\ resp = NoResponse
    /\ handlers = [h \in HandlerIds |-> Idle]

SpecSentinel == InitSentinel /\ [][Next]_vars

\* the ingestion of the service: startups over the knowledge base and the
\* uploads that add files to it
NextIngestion == Startup \/ Upload \/ Respond

SpecIngestion == Init /\ [][NextIngestion]_vars

\* the service with a startup that may raise
NextStartupFaults == Next \/ StartupFails

SpecStartupFaults == Init /\ [][NextStartupFaults]_vars

\* the service with a store, embeddings and an LLM that may raise while a
\* chat or an upload is handled
NextUpstreamFaults == Startup \/ ChatUpstreamFails \/ Upload \/ UploadStoreFails \/ Respond

SpecUpstreamFaults == Init /\ [][NextUpstreamFaults]_vars

\* api.py:235-248  the deduplication step of chat_endpoint on its own.  The
\* documents it is given: a chunk of c1/policy.md as the loader stores it, the
\* same chunk as an upload at level "department" without a department stores
\* it (same doc_key, another hierarchy_key), and chunks of other files
DedupDocs ==
    {CleanChunk(Chunk(<<"t1", 1>>, <<<<c1>>, "policy.md">>, DocMetadata(<<c1>>))),
     Chunk(<<"t1", 1>>, <<<<c1>>, "policy.md">>,
           UploadMetadata(c1, None, None, "department")),
     CleanChunk(Chunk(<<"t1", 1>>, <<<<c1, d1>>, "guide.md">>, DocMetadata(<<c1, d1>>))),
     CleanChunk(Chunk(<<"t1", 2>>, <<<<c1>>, "policy.md">>, DocMetadata(<<c1>>)))}

\* api.py:165 and 227  the lists retrieved_docs can be
RetrievedLists == UNION {[1..n -> DedupDocs] : n \in 0..MaxRetrieved}

InitDedup ==
    /\ knowledge_base = {}
    /\ vector_db = EmptyMap
    /\ retrievers = EmptyMap
    /\ vectorstore_instances = [none |-> TRUE, companies |-> {}]
    /\ llm_instance = FALSE
    /\ started = 0
    /\ uploads = 0
    /\ \E docs \in RetrievedLists : resp = [op |-> "retrieved", retrieved_docs |-> docs]
    /\ handlers = [h \in HandlerIds |-> Idle]

\* api.py:236-248  the loop over retrieved_docs and the list of the values
Deduplicate ==
    /\ resp.op = "retrieved"
    /\ resp' = [op |-> "deduplicated",
                retrieved_docs |-> resp.retrieved_docs,
                final_retrieved_docs |-> final_retrieved_docs(resp.retrieved_docs)]
    /\ UNCHANGED <<knowledge_base, vector_db, retrievers, vectorstore_instances,
                   llm_instance, started, uploads, handlers>>

NextDedup == Deduplicate

SpecDedup == InitDedup /\ [][NextDedup]_vars

\* a chat request of a client of the given company
ChatFor(company) == ChatRequest("q1", <<>>, company, None, None, {}, FALSE)

ChatOfClients == \E company \in Companies : ChatFor(company)

\* the service with a startup that may raise, and clients that keep asking.
\* Every handler returns (weak fairness of Respond), and the event loop
\* handles the requests it is sent: a client of a company that keeps asking
\* is answered whenever the service is again and again free to take a
\* request.  ChatFor(company) is enabled exactly when the service is started
\* and free, and its steps are the steps to a chat response for the company,
\* so the second condition is strong fairness of ChatFor(company).
NextRecovery == Startup \/ StartupFails \/ Upload \/ ChatOfClients \/ Respond

SpecRecovery ==
    /\ Init /\ [][NextRecovery]_vars
    /\ WF_vars(Respond)
    /\ \A company \in Companies :
          []<>(started > 0 /\ resp = NoResponse)
              => []<>(resp.op = "chat" /\ resp.company = company)

\* an identifier that holds the character '|': the directory name, or the
\* form or request field, "d1|e1" (loading.py:34-41 and api.py:151-153 and
\* 347-349 take any string)
BarDepartment == d1 \o Bar \o e1

C1BarFile == File(<<c1, BarDepartment>>, "plan.md", "md", FALSE, 1, "t2")

\* a knowledge base with the department directories c1/d1 and c1/d1|e1
InitIdentifiers ==
    /\ knowledge_base = {C1File, C1D1File, C1D1E1File, C1BarFile}
    /\ vector_db = EmptyMap
    /\ retrievers = EmptyMap
    /\ vectorstore_instances = [none |-> TRUE, companies |-> {}]
    /\ llm_instance = FALSE
    /\ started = 0
    /\ uploads = 0
    /\ resp = NoResponse
    /\ handlers = [h \in HandlerIds |-> Idle]

\* the chat requests for c1 with these departments
ChatAnyIdentifier ==
    \E department \in {d1, BarDepartment, None}, employee \in {e1, None} :
        ChatRequest("q1", <<>>, c1, department, employee, {}, FALSE)

NextIdentifiers == Startup \/ ChatAnyIdentifier \/ Upload \/ Respond

SpecIdentifiers == InitIdentifiers /\ [][NextIdentifiers]_vars

\* the service, started and restarted on its knowledge base, with store
\* lookups and an LLM that may raise during a chat
NextChatFaults == Startup \/ Chat \/ ChatUpstreamFails \/ Respond

SpecChatFaults == Init /\ [][NextChatFaults]_vars

----------------------------------------------------------------------------
(* Properties *)

\* the persisted store of organization O
TenantStore(O) == Collection(vector_db, company_db_path(O))

Organizations == Companies \cup {c3, Dot}

\* the documents of all levels of a chat response
AllLevelDocs(r) == UNION {Range(r.level_docs[key]) : key \in Levels}

\* the documents placed in the sections of the context of a chat response
ContextDocs(r) ==
    UNION {Range(r.context_sections[i].docs) : i \in 1..Len(r.context_sections)}

\* the handler of a chat request got as far as the level selection
Planned(r) == r.op = "chat" /\ r.answer \in {"generated", "no_information", "llm_error"}

RECURSIVE JoinBar(_)
\* the '|'-join of a list of identifiers
JoinBar(ids) ==
    IF ids = <<>> THEN <<>>
    ELSE IF Len(ids) = 1 THEN ids[1]
    ELSE ids[1] \o Bar \o JoinBar(Tail(ids))

\* the hierarchy fields a chunk carries, from the top
FieldsCarried(c) ==
    (IF Truthy(c.company) THEN <<c.company>> ELSE <<>>)
    \o (IF Truthy(c.department) THEN <<c.department>> ELSE <<>>)
    \o (IF Truthy(c.employee) THEN <<c.employee>> ELSE <<>>)

\* C1: store isolation.  After any sequence of startups and accepted uploads,
\* every chunk held in the store of organization O has company O, and no
\* chunk is held in the stores of two different organizations.
C1_StoreIsolation ==
    /\ \A O \in Organizations : \A c \in DOMAIN TenantStore(O) : c.company = O
    /\ \A O \in DOMAIN retrievers :
          \A c \in DOMAIN Collection(vector_db, retrievers[O]) : c.company = O
    /\ \A O1, O2 \in Organizations :
          O1 # O2 => DOMAIN TenantStore(O1) \cap DOMAIN TenantStore(O2) = {}

\* C1 witness: both organizations hold chunks after a second startup or an
\* accepted upload into a populated store
C1_Witness ==
    /\ DOMAIN TenantStore(c1) # {}
    /\ DOMAIN TenantStore(c2) # {}
    /\ resp.op = "upload" /\ resp.info = "added"
    /\ started = MaxStartups

\* C2: retrieval isolation.  For a chat request naming organization O, every
\* chunk retrieved at every level, and every chunk placed in the context, has
\* company O.
C2_RetrievalIsolation ==
    resp.op = "chat" =>
        /\ \A doc \in AllLevelDocs(resp) : doc.company = resp.company
        /\ \A doc \in Range(resp.retrieved_docs) : doc.company = resp.company
        /\ \A doc \in ContextDocs(resp) : doc.company = resp.company

\* C2 witness: a request for c1 answered from all four levels while the
\* store of c2 holds chunks and an upload has been handled
C2_Witness ==
    /\ resp.op = "chat" /\ resp.status = 200 /\ resp.company = c1
    /\ \A key \in Levels : resp.level_docs[key] # <<>>
    /\ Len(resp.context_sections) = 4
    /\ DOMAIN TenantStore(c2) # {}
    /\ uploads > 0

\* C3: a chat request for an organization without a registry entry, made to
\* the initialized service, is answered 404 (not found), not 500 or 503.
C3_UnknownOrganizationNotFound ==
    (resp.op = "chat" /\ retrievers # EmptyMap /\ llm_instance
        /\ resp.company \notin DOMAIN retrievers)
    => resp.status = 404

\* C4: the general level of a chat request for organization O returns only
\* chunks of O that carry no hierarchy metadata: no hierarchy_key, no
\* department, no employee.
C4_GeneralUnscoped ==
    resp.op = "chat" =>
        \A doc \in Range(resp.level_docs[general]) :
            /\ doc.company = resp.company
            /\ ~Truthy(doc.hierarchy_key)
            /\ ~Truthy(doc.department)
            /\ ~Truthy(doc.employee)

\* the number of places of the context that hold a document of key dk
Occurrences(r, dk) ==
    Cardinality({<<i, j>> \in (1..Len(r.context_sections)) \X (1..(k * 4)) :
                    /\ j <= Len(r.context_sections[i].docs)
                    /\ doc_key(r.context_sections[i].docs[j]) = dk})

\* C5: the context is built from the documents that survive deduplication:
\* every retrieved chunk appears in the context exactly once.
C5_ContextDeduplicated ==
    (resp.op = "chat" /\ resp.answer = "generated") =>
        \A doc \in Range(resp.retrieved_docs) : Occurrences(resp, doc_key(doc)) = 1

LevelOrder == <<employee_level, department_level, company_level, general>>

\* C6: level selection.  employee_level is queried iff company, department
\* and employee are present, department_level iff company and department
\* are, company_level iff company is, general always and last, in this order.
C6_LevelSelection ==
    Planned(resp) =>
        LET c == Truthy(resp.company)
            d == Truthy(resp.department)
            e == Truthy(resp.employee)
            keys == resp.keys
        IN  /\ (employee_level \in Range(keys)) <=> (c /\ d /\ e)
            /\ (department_level \in Range(keys)) <=> (c /\ d)
            /\ (company_level \in Range(keys)) <=> c
            /\ Len(keys) >= 1 /\ keys[Len(keys)] = general
            /\ \A i, j \in 1..Len(keys) :
                  i < j => \E a, b \in 1..4 :
                              a < b /\ LevelOrder[a] = keys[i] /\ LevelOrder[b] = keys[j]
            /\ (c /\ ~d) => keys = <<company_level, general>>
            /\ (c /\ d /\ ~e) => keys = <<department_level, company_level, general>>
            /\ (c /\ d /\ e) => keys = LevelOrder

\* C6 witness: requests of each shape have been planned; this one names all
\* three identifiers
C6_Witness ==
    Planned(resp) /\ Truthy(resp.department) /\ Truthy(resp.employee) /\ Len(resp.keys) = 4

\* C6 witness for an employee named without a department
C6_WitnessEmployeeOnly ==
    Planned(resp) /\ ~Truthy(resp.department) /\ Truthy(resp.employee)

\* C7: every chunk an accepted upload adds to the store carries the
\* hierarchy_key that is the '|'-join of exactly the company, department and
\* employee fields the chunk carries.
C7_UploadKeyMatchesFields ==
    (resp.op = "upload" /\ resp.info = "added") =>
        \A c \in resp.new_chunks :
            /\ c \in DOMAIN TenantStore(resp.company)
            /\ c.hierarchy_key = JoinBar(FieldsCarried(c))

\* the first n identifiers of a directory path
FirstSegments(dir, n) == SubSeq(dir, 1, Min(n, Len(dir)))

Segment(dir, i) == IF Len(dir) >= i THEN dir[i] ELSE None

C9_RootFileUnscoped ==
    \A c \in load_and_chunk_documents(knowledge_base, None) :
        c.source[1] = <<>> =>
            /\ c.company = None
            /\ c.department = None
            /\ c.employee = None
            /\ c.hierarchy_key = None
            /\ c.doc_type = <<"general">>

\* C10: after a startup completes for organization O, the store of O holds
\* exactly the chunks loaded for O during that startup, each once.
C10_RebuildClearsFirst ==
    (resp.op = "startup" /\ ~resp.failed) =>
        \A O \in resp.initialized :
            TenantStore(O) = SetToBag(load_and_chunk_documents(knowledge_base, O))

\* C11: append on upload.  An accepted upload for organization O leaves every
\* chunk O's store held present with the same multiplicity, adds the chunks
\* of the new file, and leaves the store of every other organization as it
\* was.
C11_AppendOnUpload ==
    [][(resp'.op = "upload" /\ resp'.info = "added") =>
          LET O == resp'.company
              before == Collection(vector_db, company_db_path(O))
              after == Collection(vector_db', company_db_path(O))
          IN  /\ resp'.new_chunks # {}
              /\ \A c \in resp'.new_chunks :
                    c.source = <<resp'.file.dir, resp'.file.name>>
              /\ after = before (+) SetToBag(resp'.new_chunks)
              /\ \A c \in DOMAIN before : CopiesIn(c, after) >= CopiesIn(c, before)
              /\ \A P \in Organizations \ {O} :
                    Collection(vector_db', company_db_path(P))
                        = Collection(vector_db, company_db_path(P))
              /\ \A path \in DOMAIN vector_db :
                    path # company_db_path(O) => vector_db'[path] = vector_db[path]
      ]_vars

\* C11 witness: an upload was added to a store that held other chunks, while
\* another organization's store is populated
C11_Witness ==
    /\ resp.op = "upload" /\ resp.info = "added"
    /\ \E c \in DOMAIN TenantStore(resp.company) : c \notin resp.new_chunks
    /\ \E P \in Organizations \ {resp.company} : DOMAIN TenantStore(P) # {}

\* the companies a startup that raises nothing initializes
Initializable(kb) ==
    {P \in CompaniesFound(kb) :
        ~SkippedCompany(P) /\ ~Contaminated(P, load_and_chunk_documents(kb, P))}

\* C12: startup errors are contained per organization.  When building the
\* store of one organization raises during startup, every other organization
\* found under the root is initialized and available to chat requests.
C12_StartupErrorsContained ==
    (resp.op = "startup" /\ resp.raised_in \in CompaniesFound(knowledge_base)) =>
        /\ llm_instance
        /\ \A P \in Initializable(knowledge_base) \ {resp.raised_in} :
              P \in DOMAIN retrievers

\* the chunks loaded for organization O name another company, or none
NamesAnother(kb, O) ==
    \E c \in load_and_chunk_documents(kb, O) : c.company # O

\* C13: when the chunks loaded for organization O at startup carry a company
\* other than O, the startup inserts nothing into O's store, gives O no
\* registry entry and goes on with the remaining organizations.
C13_ContaminatedOrganizationAborted ==
    [][(resp'.op = "startup" /\ ~resp'.failed) =>
          \A O \in CompaniesFound(knowledge_base) :
              NamesAnother(knowledge_base, O) =>
                  /\ Collection(vector_db', company_db_path(O))
                        = Collection(vector_db, company_db_path(O))
                  /\ O \notin DOMAIN retrievers'
                  /\ \A P \in CompaniesFound(knowledge_base) \ {O} :
                        (~SkippedCompany(P) /\ ~NamesAnother(knowledge_base, P)) =>
                            /\ P \in DOMAIN retrievers'
                            /\ Collection(vector_db', company_db_path(P))
                                  = Collection(vector_db, company_db_path(P))
                                    (+) SetToBag(load_and_chunk_documents(knowledge_base, P))
      ]_vars

\* C13 witness: a startup has left out an organization whose chunks do not
\* name it, and has initialized the two others
C13_Witness ==
    /\ resp.op = "startup" /\ ~resp.failed
    /\ \E O \in CompaniesFound(knowledge_base) :
          /\ ~SkippedCompany(O)
          /\ NamesAnother(knowledge_base, O)
          /\ O \notin DOMAIN retrievers
          /\ DOMAIN Collection(vector_db, company_db_path(O)) = {}
    /\ {c1, c2} \subseteq DOMAIN retrievers
    /\ DOMAIN TenantStore(c1) # {} /\ DOMAIN TenantStore(c2) # {}

\* the service is initialized and has a registry entry for the company
Known(company) ==
    retrievers # EmptyMap /\ llm_instance /\ company \in DOMAIN retrievers

\* C14: per-level failure containment.  When the lookups of a set of levels
\* raise during a chat request for a known organization, every other
\* selected level holds the documents its lookup returns, these documents
\* are retrieved and placed in the context, and the request is answered 200.
C14_LevelFailureContained ==
    [][(resp.op = "none" /\ resp'.op = "chat" /\ Known(resp'.company)) =>
          LET company == resp'.company
              department == resp'.department
              employee == resp'.employee
              keys == retriever_keys_to_query(company, department, employee)
          IN  \A question \in Questions, chat_history \in Histories,
                 failing \in SUBSET Levels :
                ChatRequest(question, chat_history, company, department, employee,
                            failing, FALSE) =>
                    /\ resp'.status = 200
                    /\ resp'.keys = keys
                    /\ \A key \in Range(keys) \ failing :
                          LET docs == LevelResults(vector_db, retrievers, key, question,
                                                   company, department, employee, {})
                          IN  /\ resp'.level_docs[key] = docs
                              /\ Range(docs) \subseteq Range(resp'.retrieved_docs)
                              /\ resp'.answer = "generated" =>
                                    Range(docs) \subseteq ContextDocs(resp')
      ]_vars

\* C14 witness: a request answered from the documents of one level although
\* the lookup of another selected level, whose filter matches stored chunks,
\* gave nothing
C14_Witness ==
    /\ resp.op = "chat" /\ resp.status = 200 /\ resp.answer = "generated"
    /\ \E failed, served \in Range(resp.keys) :
          /\ resp.level_docs[failed] = <<>>
          /\ \A question \in Questions :
                LevelResults(vector_db, retrievers, failed, question, resp.company,
                             resp.department, resp.employee, {}) # <<>>
          /\ resp.level_docs[served] # <<>>
          /\ Range(resp.level_docs[served]) \subseteq ContextDocs(resp)

\* C15: empty-result terminal state.  A chat request for a known organization
\* for which no level returns a chunk is answered 200 with the canonical
\* no-information answer and no context, and the returned history is the
\* request's history followed by (question, canonical answer).
C15_EmptyResultNoInformation ==
    (resp.op = "chat" /\ Known(resp.company)
        /\ \A key \in Levels : resp.level_docs[key] = <<>>) =>
        /\ resp.status = 200
        /\ resp.answer = "no_information"
        /\ resp.context_sections = <<>>
        /\ resp.chat_history =
              resp.request_chat_history \o << <<resp.question, "no_information">> >>

\* C15 witness: the no-information answer for a known organization whose
\* store holds no chunk, on a request that carries a history
C15_Witness ==
    /\ resp.op = "chat" /\ Known(resp.company)
    /\ resp.answer = "no_information"
    /\ DOMAIN TenantStore(resp.company) = {}
    /\ resp.request_chat_history # <<>>

\* C17: history is appended, not mutated.  The history returned with a
\* successful answer is the request's history, unchanged and in order,
\* followed by the one pair (question, answer), and the request's own
\* history is as it was sent.
C17_HistoryAppended ==
    (resp.op = "chat" /\ resp.status = 200) =>
        LET sent == resp.request_chat_history
            returned == resp.chat_history
        IN  /\ sent \in Histories
            /\ Len(returned) = Len(sent) + 1
            /\ \A i \in 1..Len(sent) : returned[i] = sent[i]
            /\ returned[Len(returned)] = <<resp.question, resp.answer>>
            /\ resp.answer \in {"generated", "no_information"}

\* C17 witness: a generated answer to a request that carries a history
C17_Witness ==
    /\ resp.op = "chat" /\ resp.status = 200 /\ resp.answer = "generated"
    /\ resp.request_chat_history # <<>>
    /\ Len(resp.chat_history) = 2

\* C17 witness for the no-information answer
C17_WitnessNoInformation ==
    /\ resp.op = "chat" /\ resp.status = 200 /\ resp.answer = "no_information"
    /\ Len(resp.chat_history) = 2

\* the labels of the sections, from the most to the least specific level
SectionLabels ==
    <<"EMPLOYEE-SPECIFIC INFORMATION", "DEPARTMENT-LEVEL INFORMATION",
      "COMPANY-LEVEL INFORMATION", "GENERAL COMPANY INFORMATION">>

\* C16: the sections of the context are in the order employee, department,
\* company, general; a level that returned a chunk has one section, holding
\* its documents, and a level that returned none has no section.
C16_SectionOrder ==
    (resp.op = "chat" /\ resp.answer \in {"generated", "llm_error"}) =>
        LET sections == resp.context_sections
            Place(i) == CHOOSE n \in 1..4 : SectionLabels[n] = sections[i].label
        IN  /\ \A i \in 1..Len(sections) :
                  /\ \E n \in 1..4 : SectionLabels[n] = sections[i].label
                  /\ sections[i].docs = resp.level_docs[LevelOrder[Place(i)]]
                  /\ sections[i].docs # <<>>
            /\ \A i, j \in 1..Len(sections) : i < j => Place(i) < Place(j)
            /\ \A n \in 1..4 :
                  (resp.level_docs[LevelOrder[n]] # <<>>)
                      <=> (\E i \in 1..Len(sections) : sections[i].label = SectionLabels[n])

\* C16 witness: a context of at least two sections, one of them the general
\* section, in which a selected level is left out because it returned nothing
C16_Witness ==
    /\ resp.op = "chat" /\ resp.answer = "generated"
    /\ Len(resp.context_sections) >= 2
    /\ resp.context_sections[Len(resp.context_sections)].label = SectionLabels[4]
    /\ \E key \in Range(resp.keys) : resp.level_docs[key] = <<>>

\* the files the loader cannot turn into documents: an extension without a
\* loader, or a loader that raises
Unloadable(kb) == {f \in kb : f.ext \notin LoaderExts \/ f.corrupt}

\* C18: skip-and-continue ingestion.  With or without a company filter, the
\* loader returns for a knowledge base exactly the chunks it returns when the
\* files it cannot load, all of them or any one, are absent, and no chunk for
\* an empty knowledge base.
C18_SkipAndContinue ==
    /\ \A absent \in {Unloadable(knowledge_base)}
                        \cup {{f} : f \in Unloadable(knowledge_base)} :
          \A O \in {None} \cup CompaniesFound(knowledge_base) :
              load_and_chunk_documents(knowledge_base, O)
                  = load_and_chunk_documents(knowledge_base \ absent, O)
    /\ \A f \in knowledge_base \ Unloadable(knowledge_base) :
          Cardinality({c \in load_and_chunk_documents(knowledge_base, None) :
                          c.source = <<f.dir, f.name>>}) = f.n
    /\ \A O \in {None} \cup Companies : load_and_chunk_documents({}, O) = {}

\* C18 witness: a started service whose knowledge base holds a corrupt PDF, a
\* file without a loader and files that load
C18_Witness ==
    /\ started > 0
    /\ \E f \in knowledge_base : f.corrupt /\ f.ext \in LoaderExts
    /\ \E f \in knowledge_base : f.ext \notin LoaderExts
    /\ load_and_chunk_documents(knowledge_base, None) # {}

RECURSIVE FilteredCount(_, _)
\* the number of chunks of the loads filtered by each company of S
FilteredCount(kb, S) ==
    IF S = {} THEN 0
    ELSE LET O == CHOOSE x \in S : TRUE
         IN  Cardinality(load_and_chunk_documents(kb, O)) + FilteredCount(kb, S \ {O})

Writing == {h \in HandlerIds : handlers[h].pc \in WritePcs}

\* C20: writes to a store are serialized.  At most one upload handler is in
\* its store write at any time, so the writes of two concurrent uploads never
\* interleave, and a chat request is never handled while an upload has
\* inserted only part of its chunks or has not yet replaced the registry
\* entry.
C20_WritesSerialized ==
    /\ Cardinality(Writing) <= 1
    /\ resp.op = "chat" => Writing = {}
    /\ \A h \in HandlerIds :
          (handlers[h].pc = "done" /\ handlers[h].chunks # {}) =>
              /\ handlers[h].request[1] \in DOMAIN retrievers
              /\ \A c \in handlers[h].chunks :
                    c \in DOMAIN Collection(vector_db, retrievers[handlers[h].request[1]])

\* C20 witness: an upload has inserted one of its two chunks while a second
\* upload request for the same organization waits for the event loop
C20_Witness ==
    \E h1, h2 \in HandlerIds :
        /\ h1 # h2
        /\ handlers[h1].pc = "insert"
        /\ handlers[h1].pending # {} /\ handlers[h1].pending # handlers[h1].chunks
        /\ handlers[h2].pc = "queued"
        /\ handlers[h2].request[1] = handlers[h1].request[1]
        /\ handlers[h2].request[5][2] \in UploadLoaderExts

\* C20 witness for the second of two uploads for one organization, writing
\* after the first has returned
C20_WitnessSecondWrite ==
    \E h1, h2 \in HandlerIds :
        /\ handlers[h1].pc = "done" /\ handlers[h1].chunks # {}
        /\ handlers[h2].pc = "register"
        /\ handlers[h2].request[1] = handlers[h1].request[1]

\* the text of an upstream error is part of the text a response carries
CarriesUpstreamDetail(r) ==
    \E e \in UpstreamErrors : \E i \in 1..Len(r.detail) : r.detail[i] = e[1]

\* C21: no response to a chat or an upload carries the detail text of an
\* upstream failure (store, embeddings or completion service); the failure is
\* surfaced as a fixed generic internal-failure message.
C21_NoUpstreamDetail ==
    resp.op \in {"chat", "upload"} =>
        /\ ~CarriesUpstreamDetail(resp)
        /\ (resp.op = "chat" /\ resp.answer = "llm_error") =>
              resp.detail = chat_except_detail(None)

\* the documents of the section of the context with the given label
SectionDocs(r, label) ==
    UNION {Range(r.context_sections[i].docs) :
              i \in {j \in 1..Len(r.context_sections) : r.context_sections[j].label = label}}

\* C22: the scoped levels are queried with the key truncated to the level
\* ('O|S|I', 'O|S', 'O'), so the department level and section hold only chunks
\* ingested at exactly the department scope (O, S) and the company level and
\* section only chunks ingested at exactly the company scope O.
C22_ScopedFiltersExact ==
    Planned(resp) =>
        LET O == resp.company
            S == resp.department
            I == resp.employee
            department_docs == Range(resp.level_docs[department_level])
                                  \cup SectionDocs(resp, SectionLabels[2])
            company_docs == Range(resp.level_docs[company_level])
                               \cup SectionDocs(resp, SectionLabels[3])
        IN  /\ \A key \in Range(resp.keys) \ {general} :
                  filter_dict(key, O, S, I) =
                      [field |-> "hierarchy_key",
                       value |-> IF key = employee_level THEN JoinBar(<<O, S, I>>)
                                 ELSE IF key = department_level THEN JoinBar(<<O, S>>)
                                 ELSE O]
            /\ \A doc \in department_docs :
                  /\ doc.hierarchy_key = JoinBar(<<O, S>>)
                  /\ FieldsCarried(doc) = <<O, S>>
            /\ \A doc \in company_docs :
                  /\ doc.hierarchy_key = O
                  /\ FieldsCarried(doc) = <<O>>

\* the scope a chunk was ingested at: its department and employee, absent
\* ones included
Scope(c) == <<c.department, c.employee>>

\* the level whose filter is built for the scope of chunk c
ScopeLevel(c) ==
    IF Truthy(c.employee) THEN employee_level
    ELSE IF Truthy(c.department) THEN department_level
    ELSE company_level

\* C30: hierarchy keys are injective within one organization.  Two chunks of
\* one store that were ingested at different scopes never carry the same
\* hierarchy_key, and the exact-match filter built for the scope of one chunk
\* matches no chunk of another scope.
C30_KeysInjective ==
    \A O \in DOMAIN vector_db :
        \A a, b \in DOMAIN vector_db[O] :
            Scope(a) # Scope(b) =>
                /\ a.hierarchy_key # b.hierarchy_key
                /\ ~Matches(b, filter_dict(ScopeLevel(a), a.company,
                                           a.department, a.employee))

\* a level below an absent level is absent
WellFormed(c) ==
    /\ Truthy(c.employee) => Truthy(c.department)
    /\ Truthy(c.department) => Truthy(c.company)

\* C23: hierarchy well-formedness.  No chunk returned by the loader, with or
\* without a company filter, and no chunk held in a store has an employee
\* without a department or a department without a company; an upload that
\* gives an employee without a department is refused and stores nothing.
C23_HierarchyWellFormed ==
    /\ \A O \in {None} \cup CompaniesFound(knowledge_base) :
          \A c \in load_and_chunk_documents(knowledge_base, O) : WellFormed(c)
    /\ \A path \in DOMAIN vector_db : \A c \in DOMAIN vector_db[path] : WellFormed(c)
    /\ resp.op = "upload" =>
          /\ \A c \in resp.new_chunks : WellFormed(c)
          /\ (Truthy(resp.employee) /\ ~Truthy(resp.department)) =>
                (resp.status = 400 /\ resp.new_chunks = {})

\* C23 witness: an upload that gives an employee without a department has
\* been refused, while the stores hold chunks of employee and department
\* scope
C23_Witness ==
    /\ resp.op = "upload" /\ resp.status = 400
    /\ Truthy(resp.employee) /\ ~Truthy(resp.department)
    /\ resp.level \in UploadLevels
    /\ \E c \in DOMAIN TenantStore(c1) : Truthy(c.employee)
    /\ \E c \in DOMAIN TenantStore(c1) : Truthy(c.department) /\ ~Truthy(c.employee)

\* C23 witness for an accepted upload at employee level
C23_WitnessEmployeeUpload ==
    /\ resp.op = "upload" /\ resp.info = "added" /\ resp.level = "employee"
    /\ \E c \in resp.new_chunks : Truthy(c.employee) /\ c \in DOMAIN TenantStore(resp.company)

\* the place of the first document of list L with the key of doc
FirstPlace(L, doc) ==
    CHOOSE p \in 1..Len(L) :
        /\ doc_key(L[p]) = doc_key(doc)
        /\ \A q \in 1..(p - 1) : doc_key(L[q]) # doc_key(doc)

\* C24: deduplication idempotence.  Deduplicating a list concatenated with
\* itself gives what deduplicating the list gives: the first document of
\* every key, in the order of the list; and deduplicating the result again
\* changes nothing.
C24_DeduplicationIdempotent ==
    resp.op = "deduplicated" =>
        LET L == resp.retrieved_docs
            D == resp.final_retrieved_docs
        IN  /\ final_retrieved_docs(L \o L) = D
            /\ final_retrieved_docs(D) = D
            /\ final_retrieved_docs(D \o D) = D
            /\ {doc_key(L[i]) : i \in 1..Len(L)} = {doc_key(D[i]) : i \in 1..Len(D)}
            /\ \A i, j \in 1..Len(D) : i # j => doc_key(D[i]) # doc_key(D[j])
            /\ \A i \in 1..Len(D) : D[i] = L[FirstPlace(L, D[i])]
            /\ \A i, j \in 1..Len(D) :
                  i < j => FirstPlace(L, D[i]) < FirstPlace(L, D[j])

\* C24 witness: a list with a repeated document, with two different documents
\* of one key and with a document between two of one key has been
\* deduplicated
C24_Witness ==
    /\ resp.op = "deduplicated"
    /\ Len(resp.retrieved_docs) = MaxRetrieved
    /\ Len(resp.final_retrieved_docs) = 2
    /\ \E i, j \in 1..Len(resp.retrieved_docs) :
          /\ i + 1 < j
          /\ resp.retrieved_docs[i] # resp.retrieved_docs[j]
          /\ doc_key(resp.retrieved_docs[i]) = doc_key(resp.retrieved_docs[j])
          /\ doc_key(resp.retrieved_docs[i + 1]) # doc_key(resp.retrieved_docs[i])

\* the scopes a request for (O, S, I) may be answered from: the scope it
\* names and the ancestors of that scope
RequestedScopes(O, S, I) ==
    {<<O>>}
    \cup (IF Truthy(S) THEN {<<O, S>>} ELSE {})
    \cup (IF Truthy(S) /\ Truthy(I) THEN {<<O, S, I>>} ELSE {})

\* C25: scope confinement inside a tenant.  Every chunk retrieved for a chat
\* request (O, S, I) and placed in its context carries the hierarchy key and
\* the fields of the requested scope or of one of its ancestors.
C25_ScopeConfinement ==
    Planned(resp) =>
        \A doc \in ContextDocs(resp) :
            \E scope \in RequestedScopes(resp.company, resp.department, resp.employee) :
                /\ doc.hierarchy_key = JoinBar(scope)
                /\ FieldsCarried(doc) = scope

\* what the two ingestion paths are compared on: the fragment, its file and
\* the scope metadata
Indexed(c) ==
    [page_content |-> c.page_content, source |-> c.source, company |-> c.company,
     department |-> c.department, employee |-> c.employee,
     hierarchy_key |-> c.hierarchy_key]

\* C26: the upload path and the startup path agree.  The chunks an accepted
\* upload adds to the store are, in presence, company, department, employee
\* and hierarchy_key, the chunks the startup loader produces for the file at
\* the path where the upload saved it.
C26_UploadAgreesWithLoader ==
    (resp.op = "upload" /\ resp.info = "added") =>
        LET loaded == {c \in load_and_chunk_documents(knowledge_base, resp.company) :
                          c.source = <<resp.file.dir, resp.file.name>>}
        IN  /\ resp.file \in knowledge_base
            /\ {Indexed(c) : c \in resp.new_chunks} = {Indexed(c) : c \in loaded}

\* C27: recovery after a failed startup.  When the startup raised and an
\* upload for organization O is accepted afterwards, a chat request for O is
\* eventually served, not answered 503.
C27_RecoveryAfterFailedStartup ==
    \A O \in Companies :
        (resp.op = "upload" /\ resp.info = "added" /\ resp.company = O /\ ~llm_instance)
            ~> (resp.op = "chat" /\ resp.company = O /\ resp.status # 503)

\* the uploads the validation is to refuse: an invalid level, the employee
\* level without a department, a department given for a company-level
\* document, an employee given for a department-level document, an employee
\* without a department
Refused(company, department, employee, level) ==
    \/ level \notin {"company", "department", "employee"}
    \/ level = "employee" /\ ~Truthy(department)
    \/ level = "company" /\ Truthy(department)
    \/ level = "department" /\ Truthy(employee)
    \/ Truthy(employee) /\ ~Truthy(department)

\* C28: a rejected upload changes nothing.  Every upload of one of the
\* refused kinds is answered 400, and an upload answered 400 leaves the
\* knowledge-base tree, every tenant store and the registry as they were.
C28_RejectedUploadChangesNothing ==
    [][(resp'.op = "upload" /\ resp.op = "none") =>
          /\ Refused(resp'.company, resp'.department, resp'.employee, resp'.level)
                => resp'.status = 400
          /\ resp'.status = 400 =>
                /\ knowledge_base' = knowledge_base
                /\ vector_db' = vector_db
                /\ retrievers' = retrievers
                /\ vectorstore_instances' = vectorstore_instances
                /\ resp'.new_chunks = {}
      ]_vars

\* C28 witness: an upload with an invalid level has been refused by a
\* service whose knowledge base, stores and registry are populated
C28_Witness ==
    /\ resp.op = "upload" /\ resp.status = 400
    /\ resp.level \notin UploadLevels
    /\ knowledge_base # {}
    /\ DOMAIN TenantStore(resp.company) # {}
    /\ resp.company \in DOMAIN retrievers

\* C28 witness for a department given for a company-level document
C28_WitnessDepartmentForCompany ==
    /\ resp.op = "upload" /\ resp.status = 400
    /\ resp.level = "company" /\ Truthy(resp.department)
    /\ knowledge_base # {}

\* the files an upload cannot vectorize: an extension without a loader, a
\* corrupt PDF, or a file that gives no content and so no chunk
Unvectorizable(f) == f.ext \notin UploadLoaderExts \/ f.corrupt \/ f.n = 0

\* C29: an accepted upload whose file cannot be vectorized saves the file
\* under the knowledge base and leaves every tenant store and the registry
\* unchanged: no store is created or written and no organization becomes
\* known.
C29_UnvectorizableUploadOnlySaved ==
    [][(resp'.op = "upload" /\ resp.op = "none" /\ resp'.status = 200
            /\ Unvectorizable(resp'.file)) =>
          /\ resp'.file \in knowledge_base'
          /\ knowledge_base' = SaveFile(knowledge_base, resp'.file)
          /\ resp'.file.dir = upload_dir_parts(resp'.company, resp'.department,
                                               resp'.employee, resp'.level)
          /\ vector_db' = vector_db
          /\ DOMAIN vector_db' = DOMAIN vector_db
          /\ retrievers' = retrievers
          /\ vectorstore_instances' = vectorstore_instances
          /\ resp'.new_chunks = {}
      ]_vars

\* C29 witness: a corrupt PDF has been uploaded for a company that has no
\* store and no registry entry, and was saved
C29_Witness ==
    /\ resp.op = "upload" /\ resp.status = 200
    /\ resp.file.corrupt /\ resp.file.ext = "pdf"
    /\ resp.file \in knowledge_base
    /\ resp.company \notin DOMAIN retrievers
    /\ resp.company \notin DOMAIN vector_db

\* C29 witness for a file without a loader
C29_WitnessUnsupported ==
    /\ resp.op = "upload" /\ resp.status = 200
    /\ resp.file.ext \notin UploadLoaderExts
    /\ resp.file \in knowledge_base

\* C29 witness for a file without content
C29_WitnessNoChunks ==
    /\ resp.op = "upload" /\ resp.status = 200
    /\ resp.file.ext \in UploadLoaderExts /\ ~resp.file.corrupt /\ resp.file.n = 0
    /\ resp.file \in knowledge_base

====
